---- MODULE Spec2Model ----
(***************************************************************************)
(* Model of src/shaders/full_screen.vert.cxx: the full-screen triangle     *)
(* vertex shader.  Every invocation of main() runs two statements,         *)
(*   l7:  out_uv = vec2((glvert_VertexIndex << 1) & 2,                     *)
(*                      glvert_VertexIndex & 2);                           *)
(*   l8:  glvert_Output.Position = vec4(out_uv * 2.0f + -1., 0., 1.);      *)
(* on its own copy of the stage variables.  The invocations of the draws   *)
(* in flight are interleaved statement by statement.                       *)
(***************************************************************************)
EXTENDS Integers, Sequences, FiniteSets, TLC

VARIABLES glvert_VertexIndex, out_uv, glvert_Output, pc, draws, produced

vars == <<glvert_VertexIndex, out_uv, glvert_Output, pc, draws, produced>>

(***************************************************************************)
(* Bounds of the model.                                                    *)
(***************************************************************************)
\* draws that may be in flight at once
NumSlots == 2
\* draws the host issues in one behaviour
MaxDraws == 2
\* largest small firstVertex of an out-of-contract draw
MaxFirst == 5
\* the clip box and the unit square are sampled every 1/GridN
GridN == 4

\* vertices of one full-screen draw
VertsPerDraw == 3

Slots == 1..NumSlots
Lanes == 0..(VertsPerDraw - 1)
Inv == Slots \X Lanes

(***************************************************************************)
(* 32-bit two's complement int, held as an integer in -2^31 .. 2^31-1.     *)
(***************************************************************************)
RECURSIVE BitAnd(_, _)
\* bitwise AND of two naturals
BitAnd(x, y) ==
    IF x = 0 \/ y = 0 THEN 0
    ELSE (IF x % 2 = 1 /\ y % 2 = 1 THEN 1 ELSE 0)
         + 2 * BitAnd(x \div 2, y \div 2)

\* x & y on int, y >= 0: the sign bit of y is clear, so only the low 31 bits
\* of x matter; for x < 0 these are x + 2^31
And32(x, y) ==
    IF x >= 0 THEN BitAnd(x, y)
    ELSE BitAnd((x + 2^30) + 2^30, y)

\* x << 1 on int, x >= 0: bit 30 moves into the sign bit, bit 31 is lost
Shl1(x) ==
    LET low == x % (2^30)
    IN IF (x \div (2^30)) % 2 = 0 THEN 2 * low
       ELSE ((2 * low) - 2^30) - 2^30

(***************************************************************************)
(* binary32 float, held as [m, e] with value m * 2^e, m odd (or 0 = [0,0]) *)
(* and |m| < 2^24.  Exponent range and denormals are not modelled.         *)
(***************************************************************************)
RECURSIVE FNorm(_, _)
FNorm(m, e) ==
    IF m = 0 THEN [m |-> 0, e |-> 0]
    ELSE IF m % 2 = 0 THEN FNorm(m \div 2, e + 1)
    ELSE [m |-> m, e |-> e]

RECURSIVE Width(_)
\* number of bits of a natural
Width(n) ==
    IF n = 0 THEN 0 ELSE 1 + Width(n \div 2)

Abs(n) ==
    IF n < 0 THEN -n ELSE n

\* m * 2^e rounded to a 24-bit significand, to nearest, ties to even
FRound(m, e) ==
    IF Width(Abs(m)) <= 24 THEN FNorm(m, e)
    ELSE LET k == Width(Abs(m)) - 24
             q == Abs(m) \div (2^k)
             r == Abs(m) % (2^k)
             h == 2^(k - 1)
             up == r > h \/ (r = h /\ q % 2 = 1)
             qq == IF up THEN q + 1 ELSE q
         IN FNorm((IF m < 0 THEN -1 ELSE 1) * qq, e + k)

\* int -> float conversion
IntToFloat(n) ==
    FRound(n, 0)

FMul(a, b) ==
    FRound(a.m * b.m, a.e + b.e)

FAdd(a, b) ==
    LET e == IF a.e < b.e THEN a.e ELSE b.e
    IN FRound(a.m * 2^(a.e - e) + b.m * 2^(b.e - e), e)

\* the literals of line 8
F_2 == [m |-> 1, e |-> 1]
F_neg1 == [m |-> -1, e |-> 0]
F_0 == [m |-> 0, e |-> 0]
F_1 == [m |-> 1, e |-> 0]

\* value of an output that has not been written
Undef == <<>>

(***************************************************************************)
(* main()                                                                  *)
(***************************************************************************)
\* line 7 with the wrong mask on the second component
UVOf_MaskOne(index) ==
    <<IntToFloat(And32(Shl1(index), 2)), IntToFloat(And32(index, 1))>>

\* line 7 extracting the two bits as 0/1 instead of 0/2
UVOf_UnitTriangle(index) ==
    <<IntToFloat(And32(index, 1)), IntToFloat(And32(index, 2) \div 2)>>

\* line 7 with a counter of the draws issued leaking into the index
UVOf_Drift(index) ==
    <<IntToFloat(And32(Shl1(index + (draws - 1)), 2)),
      IntToFloat(And32(index + (draws - 1), 2))>>

\* line 7 behind a domain check that clamps the index to 0..2
UVOf_Clamped(index) ==
    LET c == IF index > 2 THEN 2 ELSE index
    IN <<IntToFloat(And32(Shl1(c), 2)), IntToFloat(And32(c, 2))>>

\* line 7 with the two components exchanged
UVOf_Swapped(index) ==
    <<IntToFloat(And32(index, 2)), IntToFloat(And32(Shl1(index), 2))>>

\* right-hand side of line 7
UVOf(index) ==
    <<IntToFloat(And32(Shl1(index), 2)), IntToFloat(And32(index, 2))>>

\* line 8 adding 1 instead of -1
PositionOf_PlusOne(uv) ==
    <<FAdd(FMul(uv[1], F_2), F_1), FAdd(FMul(uv[2], F_2), F_1), F_0, F_1>>

\* line 8 without the scale by 2: no overshoot
PositionOf_NoScale(uv) ==
    <<FAdd(FMul(uv[1], F_1), F_neg1), FAdd(FMul(uv[2], F_1), F_neg1), F_0, F_1>>

\* line 8 scaling by 4: more overshoot
PositionOf_Scale4(uv) ==
    <<FAdd(FMul(uv[1], [m |-> 1, e |-> 2]), F_neg1),
      FAdd(FMul(uv[2], [m |-> 1, e |-> 2]), F_neg1), F_0, F_1>>

\* right-hand side of line 8, from the out_uv it reads
PositionOf(uv) ==
    <<FAdd(FMul(uv[1], F_2), F_neg1), FAdd(FMul(uv[2], F_2), F_neg1), F_0, F_1>>

\* out_uv as one variable shared by the invocations of a draw: line 8 reads
\* what the next lane wrote, when it has written
ReadOutUV_Shared(i) ==
    LET j == <<i[1], (i[2] + 1) % VertsPerDraw>>
    IN IF out_uv[j] # Undef THEN out_uv[j] ELSE out_uv[i]

\* the out_uv that invocation i reads at line 8: its own
ReadOutUV(i) ==
    out_uv[i]

Line7(i) ==
    /\ pc[i] = "l7"
    /\ out_uv' = [out_uv EXCEPT ![i] = UVOf(glvert_VertexIndex[i])]
    /\ pc' = [pc EXCEPT ![i] = "l8"]
    /\ UNCHANGED <<glvert_VertexIndex, glvert_Output, draws, produced>>

\* line 8 scaling out_uv in place before using it
Line8_Clobber(i) ==
    /\ pc[i] = "l8"
    /\ out_uv' = [out_uv EXCEPT ![i] = <<FMul(out_uv[i][1], F_2), FMul(out_uv[i][2], F_2)>>]
    /\ glvert_Output' =
          [glvert_Output EXCEPT ![i] =
              [Position |-> <<FAdd(out_uv'[i][1], F_neg1), FAdd(out_uv'[i][2], F_neg1), F_0, F_1>>]]
    /\ pc' = [pc EXCEPT ![i] = "done"]
    /\ produced' = produced \cup
          {<<glvert_VertexIndex[i], out_uv'[i], glvert_Output'[i].Position>>}
    /\ UNCHANGED <<glvert_VertexIndex, draws>>

Line8(i) ==
    /\ pc[i] = "l8"
    /\ glvert_Output' =
          [glvert_Output EXCEPT ![i] = [Position |-> PositionOf(ReadOutUV(i))]]
    /\ pc' = [pc EXCEPT ![i] = "done"]
    /\ produced' = produced \cup
          {<<glvert_VertexIndex[i], out_uv[i], glvert_Output'[i].Position>>}
    /\ UNCHANGED <<glvert_VertexIndex, out_uv, draws>>

(***************************************************************************)
(* The host: a draw starts VertsPerDraw invocations on a free slot, each   *)
(* with fresh, unwritten outputs.                                          *)
(***************************************************************************)
SlotFree(d) ==
    \/ \A v \in Lanes : pc[<<d, v>>] = "idle"
    \/ \A v \in Lanes : pc[<<d, v>>] = "done"

Launch(d, first) ==
    /\ draws < MaxDraws
    /\ SlotFree(d)
    /\ draws' = draws + 1
    /\ glvert_VertexIndex' =
          [i \in Inv |-> IF i[1] = d THEN first + i[2] ELSE glvert_VertexIndex[i]]
    /\ out_uv' = [i \in Inv |-> IF i[1] = d THEN Undef ELSE out_uv[i]]
    /\ glvert_Output' =
          [i \in Inv |-> IF i[1] = d THEN [Position |-> Undef] ELSE glvert_Output[i]]
    /\ pc' = [i \in Inv |-> IF i[1] = d THEN "l7" ELSE pc[i]]
    /\ UNCHANGED produced

\* the draw the technique requires: 3 vertices, firstVertex 0
Draw(d) ==
    Launch(d, 0)

\* first vertices of draws that break the contract, some near the top of int
FirstVertices ==
    (0..MaxFirst) \cup {2^30 - 1, (2^30 - 3) + 2^30}

\* a draw with any firstVertex, one at a time
DrawAny(d, first) ==
    /\ \A e \in Slots : SlotFree(e)
    /\ Launch(d, first)

Init ==
    /\ glvert_VertexIndex = [i \in Inv |-> i[2]]
    /\ out_uv = [i \in Inv |-> Undef]
    /\ glvert_Output = [i \in Inv |-> [Position |-> Undef]]
    /\ pc = [i \in Inv |-> "idle"]
    /\ draws = 0
    /\ produced = {}

Next ==
    \/ \E d \in Slots : Draw(d)
    \/ \E i \in Inv : Line7(i)
    \/ \E i \in Inv : Line8(i)

Spec == Init /\ [][Next]_vars

NextAny ==
    \/ \E d \in Slots : \E first \in FirstVertices : DrawAny(d, first)
    \/ \E i \in Inv : Line7(i)
    \/ \E i \in Inv : Line8(i)

SpecAny == Init /\ [][NextAny]_vars

(***************************************************************************)
(* What the fixed-function stages downstream make of the outputs: exact    *)
(* values, primitive assembly, edge functions and interpolation.  Points   *)
(* are held as integers in units of 1/k.                                   *)
(***************************************************************************)
\* k times the value of float f, for a value that is a multiple of 1/k
ToFixed(f, k) ==
    IF f.e >= 0 THEN f.m * (2^f.e) * k
    ELSE (f.m * k) \div (2^(0 - f.e))

\* the slot's draw has run all its invocations to the end
Assembled(d) ==
    \A v \in Lanes : pc[<<d, v>>] = "done"

\* position.xy and uv of lane v of slot d, in units of 1/k
PosXY(d, v, k) ==
    <<ToFixed(glvert_Output[<<d, v>>].Position[1], k),
      ToFixed(glvert_Output[<<d, v>>].Position[2], k)>>

UVXY(d, v, k) ==
    <<ToFixed(out_uv[<<d, v>>][1], k), ToFixed(out_uv[<<d, v>>][2], k)>>

\* twice the signed area of (a, b, p): > 0 when p is left of the edge a -> b
Edge(a, b, p) ==
    (b[1] - a[1]) * (p[2] - a[2]) - (b[2] - a[2]) * (p[1] - a[1])

\* p inside or on the boundary of the triangle (a, b, c), either winding
InTriangle(p, a, b, c) ==
    \/ Edge(a, b, p) >= 0 /\ Edge(b, c, p) >= 0 /\ Edge(c, a, p) >= 0
    \/ Edge(a, b, p) <= 0 /\ Edge(b, c, p) <= 0 /\ Edge(c, a, p) <= 0

\* the clip box [-1,1] x [-1,1] and the unit square [0,1] x [0,1], sampled
ClipGrid == (-GridN..GridN) \X (-GridN..GridN)
UnitGrid == (0..GridN) \X (0..GridN)

\* the invocations whose line 7 has run, and those that have finished
WroteUV == {i \in Inv : pc[i] \in {"l8", "done"}}
Finished == {i \in Inv : pc[i] = "done"}

\* the output table, as float values
UVTable ==
    <<  <<[m |-> 0, e |-> 0], [m |-> 0, e |-> 0]>>,
        <<[m |-> 1, e |-> 1], [m |-> 0, e |-> 0]>>,
        <<[m |-> 0, e |-> 0], [m |-> 1, e |-> 1]>>  >>

PositionTable ==
    <<  <<[m |-> -1, e |-> 0], [m |-> -1, e |-> 0], [m |-> 0, e |-> 0], [m |-> 1, e |-> 0]>>,
        <<[m |-> 3, e |-> 0], [m |-> -1, e |-> 0], [m |-> 0, e |-> 0], [m |-> 1, e |-> 0]>>,
        <<[m |-> -1, e |-> 0], [m |-> 3, e |-> 0], [m |-> 0, e |-> 0], [m |-> 1, e |-> 0]>>  >>

(***************************************************************************)
(* C1: for every index in {0,1,2} the out_uv that line 7 writes is (a, b)  *)
(* with a = (index << 1) & 2 and b = index & 2, converted to float, and it *)
(* is the entry of the 3-entry table (0,0), (2,0), (0,2) for that index.   *)
(***************************************************************************)
C1_UVMatchesTable ==
    \A i \in WroteUV :
        LET index == glvert_VertexIndex[i]
            a == And32(Shl1(index), 2)
            b == And32(index, 2)
        IN index \in 0..2 =>
              /\ out_uv[i] = <<IntToFloat(a), IntToFloat(b)>>
              /\ out_uv[i] = UVTable[index + 1]

\* each of the three indices has had its UV written
C1_Witness ==
    \A index \in 0..2 :
        \E i \in WroteUV : glvert_VertexIndex[i] = index /\ out_uv[i] # Undef

(***************************************************************************)
(* C2: for every index in {0,1,2} the position written satisfies           *)
(* position.xy = out_uv * 2 - 1 for the out_uv of the same invocation,     *)
(* position.z = 0, position.w = 1, and is exactly (-1,-1,0,1), (3,-1,0,1), *)
(* (-1,3,0,1) for index 0, 1, 2.                                           *)
(***************************************************************************)
C2_PositionMatchesTable ==
    \A i \in Finished :
        LET index == glvert_VertexIndex[i]
            pos == glvert_Output[i].Position
        IN index \in 0..2 =>
              /\ ToFixed(pos[1], 1) = 2 * ToFixed(out_uv[i][1], 1) - 1
              /\ ToFixed(pos[2], 1) = 2 * ToFixed(out_uv[i][2], 1) - 1
              /\ pos[3] = [m |-> 0, e |-> 0]
              /\ pos[4] = [m |-> 1, e |-> 0]
              /\ pos = PositionTable[index + 1]

\* each of the three indices has had its position written
C2_Witness ==
    \A index \in 0..2 :
        \E i \in Finished : glvert_VertexIndex[i] = index

(***************************************************************************)
(* C3: the triangle of the three position.xy of a draw covers the clip box *)
(* [-1,1] x [-1,1]: every sampled point of the box, its four corners and   *)
(* its centre among them, is inside or on the boundary of the triangle.    *)
(***************************************************************************)
C3_TriangleCoversClipBox ==
    \A d \in Slots :
        Assembled(d) =>
            \A p \in ClipGrid :
                InTriangle(p, PosXY(d, 0, GridN), PosXY(d, 1, GridN), PosXY(d, 2, GridN))

\* a draw is assembled, and the far corner (1,1) of the box is on its edge
C3_Witness ==
    \E d \in Slots :
        /\ Assembled(d)
        /\ Edge(PosXY(d, 1, GridN), PosXY(d, 2, GridN), <<GridN, GridN>>) = 0

(***************************************************************************)
(* C4: the hypotenuse of the UV triangle, from the index-1 vertex to the   *)
(* index-2 vertex, passes exactly through (1,1), and the UV triangle       *)
(* strictly contains the unit square: every sampled point of [0,1] x [0,1] *)
(* is in the triangle, and the triangle has a point outside the square.    *)
(***************************************************************************)
C4_UVTriangleContainsUnitSquare ==
    \A d \in Slots :
        Assembled(d) =>
            LET a == UVXY(d, 0, GridN)
                b == UVXY(d, 1, GridN)
                c == UVXY(d, 2, GridN)
            IN /\ <<a, b, c>> = <<<<0, 0>>, <<2 * GridN, 0>>, <<0, 2 * GridN>>>>
               /\ Edge(b, c, <<GridN, GridN>>) = 0
               /\ \A p \in UnitGrid : InTriangle(p, a, b, c)
               /\ \E q \in {a, b, c} : q \notin UnitGrid

\* a draw is assembled and (1,1) is the only corner of the square on the
\* hypotenuse
C4_Witness ==
    \E d \in Slots :
        /\ Assembled(d)
        /\ {p \in UnitGrid : Edge(UVXY(d, 1, GridN), UVXY(d, 2, GridN), p) = 0}
              \cap {0, GridN} \X {0, GridN} = {<<GridN, GridN>>}

(***************************************************************************)
(* C5: main() is pure and deterministic: all the evaluations with the same *)
(* index in {0,1,2}, in this draw or an earlier one, in this slot or       *)
(* another, have produced the same out_uv and position.                    *)
(***************************************************************************)
C5_Deterministic ==
    /\ \A r1 \in produced : \A r2 \in produced :
          (r1[1] \in 0..2 /\ r1[1] = r2[1]) => r1 = r2
    /\ \A i \in Finished :
          <<glvert_VertexIndex[i], out_uv[i], glvert_Output[i].Position>> \in produced
    /\ \A i \in WroteUV : \A j \in WroteUV :
          glvert_VertexIndex[i] = glvert_VertexIndex[j] => out_uv[i] = out_uv[j]

\* slot 1 runs its second draw: lane 0 has finished again, lane 1 has not
\* started, and index 0 still has one result on record
C5_Witness ==
    /\ draws = 2
    /\ \A i \in Inv : i[1] # 1 => pc[i] = "idle"
    /\ pc[<<1, 0>>] = "done"
    /\ pc[<<1, 1>>] = "l7"
    /\ Cardinality({r \in produced : r[1] = 0}) = 1

(***************************************************************************)
(* C6: with the statements of the invocations interleaved in any order,    *)
(* each invocation ends with the outputs it produces when run alone, and   *)
(* the position it writes is derived from the out_uv it wrote itself.      *)
(***************************************************************************)
C6_Independent ==
    /\ \A i \in WroteUV : out_uv[i] = UVOf(glvert_VertexIndex[i])
    /\ \A i \in Finished :
          /\ glvert_Output[i].Position = PositionOf(out_uv[i])
          /\ glvert_Output[i].Position = PositionOf(UVOf(glvert_VertexIndex[i]))

\* two draws in flight, invocations of both between their two statements
\* while others have finished or not started
C6_Witness ==
    /\ \E i \in Inv : \E j \in Inv :
          i[1] # j[1] /\ pc[i] = "l8" /\ pc[j] = "l8"
    /\ \E i \in Inv : pc[i] = "done"
    /\ \E i \in Inv : pc[i] = "l7"

(***************************************************************************)
(* C7: an invocation of main() writes exactly two outputs, out_uv and the  *)
(* position, each exactly once, and changes nothing else: a statement of   *)
(* invocation i leaves the index of i and everything of the other          *)
(* invocations alone; line 7 writes out_uv only, line 8 the position only; *)
(* each is written when still unwritten, and both are written at the end.  *)
(***************************************************************************)
C7_Written ==
    \A i \in Inv :
        /\ pc[i] = "l7" => out_uv[i] = Undef /\ glvert_Output[i].Position = Undef
        /\ pc[i] = "l8" => out_uv[i] # Undef /\ glvert_Output[i].Position = Undef
        /\ pc[i] = "done" => out_uv[i] # Undef /\ glvert_Output[i].Position # Undef

C7_Statement(i) ==
    /\ pc[i] \in {"l7", "l8"}
    /\ glvert_VertexIndex' = glvert_VertexIndex
    /\ \A j \in Inv \ {i} :
          /\ out_uv'[j] = out_uv[j]
          /\ glvert_Output'[j] = glvert_Output[j]
          /\ pc'[j] = pc[j]
    /\ pc[i] = "l7" =>
          /\ out_uv[i] = Undef /\ out_uv'[i] # Undef
          /\ glvert_Output'[i] = glvert_Output[i]
          /\ pc'[i] = "l8"
    /\ pc[i] = "l8" =>
          /\ out_uv'[i] = out_uv[i]
          /\ glvert_Output[i].Position = Undef /\ glvert_Output'[i].Position # Undef
          /\ DOMAIN glvert_Output'[i] = {"Position"}
          /\ pc'[i] = "done"

C7_WritesExactlyTwoOutputs ==
    /\ []C7_Written
    /\ [][draws' = draws => \E i \in Inv : C7_Statement(i)]_vars

\* in one draw, an invocation has written both outputs, another only out_uv,
\* and the third nothing yet
C7_Witness ==
    \E d \in Slots :
        /\ pc[<<d, 0>>] = "done" /\ glvert_Output[<<d, 0>>].Position # Undef
        /\ pc[<<d, 1>>] = "l8" /\ out_uv[<<d, 1>>] # Undef
        /\ pc[<<d, 2>>] = "l7" /\ out_uv[<<d, 2>>] = Undef

(***************************************************************************)
(* C8: for every non-negative index, in {0,1,2} or not, each component of  *)
(* out_uv is 0 or 2 and each of position.xy is -1 or 3, the outputs depend *)
(* only on the two low-order bits of the index (index and index + 4 give   *)
(* the same), and index 3 gives UV (2,2) and position (3,3,0,1), a point   *)
(* that is none of the three vertices of the triangle.                     *)
(***************************************************************************)
C8_LowBitsOnly ==
    /\ \A i \in Finished :
          glvert_VertexIndex[i] >= 0 =>
              /\ \A n \in 1..2 : out_uv[i][n] \in {[m |-> 0, e |-> 0], [m |-> 1, e |-> 1]}
              /\ \A n \in 1..2 :
                    glvert_Output[i].Position[n] \in {[m |-> -1, e |-> 0], [m |-> 3, e |-> 0]}
              /\ <<glvert_VertexIndex[i], out_uv[i], glvert_Output[i].Position>> \in produced
    /\ \A r1 \in produced : \A r2 \in produced :
          (r1[1] % 4 = r2[1] % 4 \/ r2[1] - r1[1] = 4) =>
              r1[2] = r2[2] /\ r1[3] = r2[3]
    /\ \A r \in produced :
          r[1] = 3 =>
              /\ r[2] = <<[m |-> 1, e |-> 1], [m |-> 1, e |-> 1]>>
              /\ r[3] = <<[m |-> 3, e |-> 0], [m |-> 3, e |-> 0],
                          [m |-> 0, e |-> 0], [m |-> 1, e |-> 0]>>
              /\ \A n \in 1..3 : r[3] # PositionTable[n]

\* index 3 has run, and so have an index and the index 4 above it
C8_Witness ==
    /\ \E r \in produced : r[1] = 3
    /\ \E r1 \in produced : \E r2 \in produced : r2[1] - r1[1] = 4

(***************************************************************************)
(* C9: the three positions of a draw are pairwise distinct and not         *)
(* collinear, and in index order 0 -> 1 -> 2 the cross product             *)
(* (p1 - p0) x (p2 - p0) of their position.xy is +16: counter-clockwise.   *)
(***************************************************************************)
C9_WindingIsPlus16 ==
    \A d \in Slots :
        Assembled(d) =>
            /\ \A v \in Lanes : \A w \in Lanes :
                  v # w => glvert_Output[<<d, v>>].Position # glvert_Output[<<d, w>>].Position
            /\ Edge(PosXY(d, 0, 1), PosXY(d, 1, 1), PosXY(d, 2, 1)) = 16

\* every slot holds an assembled draw
C9_Witness ==
    \A d \in Slots : Assembled(d)

(***************************************************************************)
(* C10: the UV interpolated across the triangle of a draw at a point p of  *)
(* the clip box is (p + 1) / 2, so it is in [0,1] x [0,1]; the corners     *)
(* (-1,-1), (1,-1), (-1,1), (1,1) receive (0,0), (1,0), (0,1), (1,1).      *)
(***************************************************************************)
\* area-weighted sum of component n of the three uv at p: the interpolated
\* value times Area(d); p and the positions are in units of 1/GridN
Area(d) ==
    Edge(PosXY(d, 0, GridN), PosXY(d, 1, GridN), PosXY(d, 2, GridN))

Weighted(d, p, n) ==
    Edge(PosXY(d, 1, GridN), PosXY(d, 2, GridN), p) * UVXY(d, 0, 1)[n]
    + Edge(PosXY(d, 2, GridN), PosXY(d, 0, GridN), p) * UVXY(d, 1, 1)[n]
    + Edge(PosXY(d, 0, GridN), PosXY(d, 1, GridN), p) * UVXY(d, 2, 1)[n]

C10_InterpolatedUV ==
    \A d \in Slots :
        Assembled(d) =>
            /\ Area(d) > 0
            /\ \A p \in ClipGrid : \A n \in 1..2 :
                  /\ 2 * GridN * Weighted(d, p, n) = Area(d) * (p[n] + GridN)
                  /\ 0 <= Weighted(d, p, n) /\ Weighted(d, p, n) <= Area(d)
            /\ \A p \in {-GridN, GridN} \X {-GridN, GridN} : \A n \in 1..2 :
                  Weighted(d, p, n) = (IF p[n] = GridN THEN Area(d) ELSE 0)

\* a draw is assembled and the centre of the box receives UV (1/2, 1/2)
C10_Witness ==
    \E d \in Slots :
        /\ Assembled(d)
        /\ \A n \in 1..2 : 2 * Weighted(d, <<0, 0>>, n) = Area(d)

====
